---- MODULE Spec2Model ----
(***************************************************************************)
(* The Google sign-in flow of Tide: the AuthServer's two tables            *)
(* (auth_sessions, auth_results), the /auth/google/callback and            *)
(* /auth/status handlers that run on the server's event loop, and the      *)
(* session creation that the UI thread performs on the same tables.        *)
(*                                                                         *)
(* Threads.  The handlers are coroutines of one event loop: a handler runs *)
(* without interruption by another handler except at an await.  The only   *)
(* await of google_callback is the token exchange (server.py:138).         *)
(* create_auth_session is called from the UI thread, which is not the      *)
(* event loop's thread, so it may run between any two steps of a handler;  *)
(* the one place where this is visible is the iteration over               *)
(* auth_sessions (server.py:107), which CPython aborts with RuntimeError   *)
(* when the dict has changed size since the iterator was made.             *)
(*                                                                         *)
(* Further parts: the sign-in button with its polling thread               *)
(* (ui/auth_components.py), GoogleOAuthService.validate_state, and         *)
(* UserService.get_or_create_user_from_oauth on the users table.           *)
(***************************************************************************)
EXTENDS Integers, Sequences, FiniteSets, TLC

\* Bounds of the model.
MaxSessions == 2        \* sign-ins started (create_auth_session calls)
MaxCallbacks == 2       \* callback requests received
MaxClicks == 1          \* sign-ins started by the button
MaxRedirects == 1       \* callback requests the browser sends for the button's sign-ins
MaxAttempts == 2        \* the poller's attempt cap (max_attempts, 60 in the code)
MaxRetries == 2         \* clicks of a button whose sign-ins get no callback
MaxCallers == 3         \* concurrent callers of the user service
MaxLen == 2             \* length of the strings given to validate_state

\* Values of the query parameters of a callback.
NoValue == 0            \* a parameter that is absent (or empty: both are falsy)
Forged == -1            \* a state value that no sign-in was ever given
GoodCode == 1           \* an authorization code
DeniedError == 1        \* an error parameter, such as access_denied

\* The value of a key that a userinfo document does not have (dict.get
\* returns None for it, or the default it is given).
Absent == "<absent>"

\* The userinfo documents the provider may return (server.py:261-265):
\* a complete profile, one without email, one whose email belongs to the
\* first but whose id differs, and one whose id is the empty string and
\* which names the user in sub.
Profiles ==
    { [id |-> "1234", sub |-> Absent, email |-> "alice@example.com"],
      [id |-> "5678", sub |-> Absent, email |-> ""],
      [id |-> "9999", sub |-> Absent, email |-> "alice@example.com"],
      [id |-> "", sub |-> "4321", email |-> "bob@example.com"] }

\* The oauth_data a caller may pass to the user service: these, and the
\* profile of the first user after its email changed to one that another
\* user holds.
ServiceProfiles ==
    Profiles \cup { [id |-> "1234", sub |-> Absent, email |-> "bob@example.com"] }

VARIABLES
    auth_sessions,   \* AuthServer.auth_sessions: the dict, in insertion order
    auth_results,    \* AuthServer.auth_results: session id -> result
    users,           \* the rows of the users table, in insertion order
    tokens,          \* number of state tokens generated so far
    uuids,           \* number of session ids generated so far
    requests,        \* the callback requests being handled, in order of arrival
    received,        \* number of callback requests received so far
    response,        \* the callback request answered last, with its answer
    answered200,     \* history: the <<code, state>> pairs answered 200
    lastStatus,      \* the answer of the latest /auth/status request
    signIns,         \* history: the <<session id, state>> of every sign-in started
    validations,     \* history: state -> number of requests that passed lookup and validation
    resultLog,       \* history: the <<session id, user info>> of every write to auth_results
    delivered,       \* history: session id -> number of status answers carrying a result
    button,          \* GoogleSignInButton: is_loading, current_state, current_session_id
    thread,          \* GoogleSignInButton.polling_thread and the locals of poll_auth_status
    events,          \* history: the calls of on_auth_success and on_auth_error
                     \* since the polling thread was last started
    info_log,        \* history: the state values written to the log at info level
    calls,           \* the get_or_create_user_from_oauth calls of concurrent callers
    validated,       \* a validate_state call: its arguments and its outcome
    app              \* TideApp: its page, FletAuthHandler and RouteProtector

serverVars == << auth_sessions, auth_results, users, tokens, uuids, requests,
                 received, response, answered200, lastStatus, signIns,
                 validations, resultLog, delivered, info_log >>

uiVars == << button, thread, events >>

serviceVars == << calls, validated, app >>

vars == << serverVars, uiVars, serviceVars >>

\* The session ids and the state tokens of the model: those that may be
\* generated, and for the ids one more that never is.
MaxIssued ==
    LET limits == {MaxSessions, MaxClicks, MaxRetries}
    IN  CHOOSE m \in limits : \A n \in limits : n <= m
Callers == 1..MaxCallers
SessionIds == 1..(MaxIssued + 1)
States == 1..MaxIssued

----------------------------------------------------------------------------
\* Helpers on the tables.

\* The keys of auth_sessions.
SessionKeys == { auth_sessions[k].session_id : k \in DOMAIN auth_sessions }

\* del self.auth_sessions[session_id]
DictDelete(d, sid) == SelectSeq(d, LAMBDA s : s.session_id # sid)

\* secrets.token_urlsafe(32): a value that was never returned before.
FreshToken(n) == n + 1

\* str(uuid.uuid4()): a value that was never returned before.
FreshUuid(n) == n + 1

\* Strings are sequences of code points.  A code point above 127 is not
\* ASCII.
NonAscii == 233
IsAscii(string) == \A k \in DOMAIN string : string[k] < 128

\* secrets.compare_digest on two str: TypeError unless both are ASCII, else
\* whether they have the same length and the same characters.
compare_digest(a, b) ==
    IF IsAscii(a) /\ IsAscii(b)
    THEN [raised |-> FALSE,
          value |-> Len(a) = Len(b) /\ \A k \in DOMAIN a : a[k] = b[k]]
    ELSE [raised |-> TRUE, value |-> FALSE]

\* GoogleOAuthService.validate_state
validate_state(received_state, expected_state) ==
    compare_digest(received_state, expected_state)

\* True while some handler is in the middle of a step sequence that holds the
\* event loop (the scan of auth_sessions has no await).
LoopBusy == \E i \in DOMAIN requests : requests[i].pc = "scan"

\* A callback request: its query parameters, the handler's position and
\* locals (the dict iterator's recorded size and position, the session it
\* selected), and its answer once it has one.  The last three fields are
\* history: whether the handler called the user service, whether the same
\* code and state had been answered 200 before this request arrived, and
\* whether no pending session had the request's state when it arrived.
Request(code, state, error, replay, unmatched) ==
    [ code |-> code, state |-> state, error |-> error,
      pc |-> "start", di_used |-> 0, di_pos |-> 0, session_id |-> 0,
      status |-> 0, outcome |-> "none", provisioned |-> FALSE,
      replay |-> replay, unmatched |-> unmatched ]

NoResponse == Request(NoValue, NoValue, NoValue, FALSE, FALSE)

\* The text of a state value: a generated token is ASCII
\* (secrets.token_urlsafe), a forged one need not be.
StateText(state) ==
    IF state = NoValue THEN << >>
    ELSE IF state = Forged THEN << NonAscii >>
    ELSE << state >>

\* Python's None, as the value of current_state and current_session_id.
None == 0

\* polling_thread before the first start, or a thread that has ended.
\* pendings is history: the number of answers this run took as pending;
\* running is the number of threads that run poll_auth_status.
NoThread == [alive |-> FALSE, pc |-> "ended", attempt |-> 0, url_id |-> None,
             result |-> [session_id |-> 0, status |-> "none", success |-> FALSE,
                         user_info |-> "none"],
             pendings |-> 0, running |-> 0]

\* A caller of the user service that has not called yet.  prior and first
\* are history: the user that an earlier call, finished before this one
\* began, created for the same external id; and whether this call began
\* when no stored user had its external id or email and has run without
\* another call beside it.  email_taken is history too: whether, when the
\* call began, a stored user with another external id held its email.
NoCall == [pc |-> "idle", oauth_data |-> [id |-> Absent, sub |-> Absent,
                                          email |-> Absent],
           existing_user |-> [user_id |-> None, email_address |-> Absent,
                              external_user_id |-> Absent, last_active_date |-> 0],
           outcome |-> "none", user_id |-> None, prior |-> None,
           first |-> FALSE, email_taken |-> FALSE]

\* No validate_state call.
NotValidated == [received_state |-> << >>, expected_state |-> << >>,
                 called |-> FALSE, raised |-> FALSE, value |-> FALSE]

\* current_user = None.  The code assigns current_user only None or a dict
\* that has these four keys.
NoSession == [user_id |-> Absent, email |-> Absent, name |-> Absent,
              provider |-> Absent]

\* The page and the handlers before TideApp is constructed.  last_change,
\* last_op and logout_log are history: how the last route change event
\* reached the application's handler, the last operation, and what the
\* last logout met.  signin_button is the GoogleSignInButton of
\* flet_auth_ui.py; its logins and in_flight are history: the page.login
\* calls its click callback made, and those since its last terminal
\* callback.
NoApp == [phase |-> "new", current_user |-> NoSession, client_storage |-> {},
          protected_routes |-> {}, public_routes |-> {},
          route |-> "", view |-> "none",
          on_route_change |-> "None", original_on_route_change |-> "None",
          signin_button |-> [is_loading |-> FALSE, logins |-> 0,
                             in_flight |-> 0],
          last_change |-> "none", last_op |-> "none",
          logout_log |-> [was_authenticated |-> FALSE, kept_keys |-> FALSE,
                          callback_raised |-> FALSE]]

RemoveAt(seq, i) == SubSeq(seq, 1, i - 1) \o SubSeq(seq, i + 1, Len(seq))

InitProgram ==
    /\ auth_sessions = << >>
    /\ auth_results = << >>
    /\ users = << >>
    /\ tokens = 0
    /\ uuids = 0
    /\ requests = << >>
    /\ received = 0
    /\ response = NoResponse
    /\ answered200 = {}
    /\ lastStatus = [session_id |-> 0, status |-> "none", success |-> FALSE,
                     user_info |-> "none"]
    /\ signIns = << >>
    /\ validations = [t \in States |-> 0]
    /\ resultLog = << >>
    /\ delivered = [s \in SessionIds |-> 0]
    /\ button = [is_loading |-> FALSE, current_state |-> None,
                 current_session_id |-> None, started |-> 0, in_flight |-> 0]
    /\ thread = NoThread
    /\ events = << >>
    /\ info_log = {}
    /\ calls = [c \in Callers |-> NoCall]
    /\ app = NoApp

Init == InitProgram /\ validated = NotValidated

----------------------------------------------------------------------------
\* AuthServer.create_auth_session, called with the state of a fresh
\* authorization URL (GoogleOAuthService.generate_auth_url).
CreateSession(state) ==
    LET session_id == FreshUuid(uuids) IN
    /\ auth_sessions' = Append(auth_sessions,
                               [session_id |-> session_id, state |-> state])
    /\ uuids' = session_id
    /\ signIns' = Append(signIns, << session_id, state >>)
    /\ info_log' = info_log \cup {state}

\* A sign-in started by any user interface: generate_auth_url, then
\* create_auth_session with its state.
StartSignIn ==
    /\ uuids < MaxSessions
    /\ tokens' = FreshToken(tokens)
    /\ CreateSession(FreshToken(tokens))
    /\ UNCHANGED << auth_results, users, requests, received, response,
                    answered200, lastStatus, validations, resultLog, delivered >>

----------------------------------------------------------------------------
\* GET /auth/google/callback

\* A callback request as it arrives.
NewRequest(code, state, error) ==
    Request(code, state, error, << code, state >> \in answered200,
            \A k \in DOMAIN auth_sessions : auth_sessions[k].state # state)

\* The handler of request i has moved to r: a request that was answered
\* leaves the requests being handled and becomes the latest response.
Handled(i, r) ==
    /\ requests' = IF r.pc = "done" THEN RemoveAt(requests, i)
                   ELSE [requests EXCEPT ![i] = r]
    /\ response' = IF r.pc = "done" THEN r ELSE response
    /\ answered200' = IF r.status = 200
                      THEN answered200 \cup { << r.code, r.state >> }
                      ELSE answered200
    /\ validations' = IF requests[i].pc = "scan" /\ r.pc = "exchange"
                      THEN [validations EXCEPT ![r.state] = @ + 1]
                      ELSE validations

\* The handler returns an HTMLResponse with this status code.
Respond(r, status, outcome) ==
    [r EXCEPT !.pc = "done", !.status = status, !.outcome = outcome]

\* server.py:76-104: the parameter checks, then iter(self.auth_sessions.items()).
CallbackEntry(r) ==
    IF r.error # NoValue
    THEN Respond(r, 400, "oauth_error")
    ELSE IF r.code = NoValue \/ r.state = NoValue
    THEN Respond(r, 400, "missing")
    ELSE [r EXCEPT !.pc = "scan", !.di_used = Len(auth_sessions), !.di_pos = 1]

\* server.py:125-138: state validation of the session the scan selected, up
\* to the awaited token exchange.  A failed validation raises CSRFError,
\* which the handler answers 403 (server.py:211-215); a TypeError of the
\* comparison is answered 500 (server.py:216-220).
CallbackValidate(r, session_data) ==
    LET valid == validate_state(StateText(r.state), StateText(session_data.state))
    IN  IF valid.raised
        THEN Respond(r, 500, "type_error")
        ELSE IF valid.value
        THEN [r EXCEPT !.pc = "exchange", !.session_id = session_data.session_id]
        ELSE Respond(r, 403, "csrf")

\* A lookup loop whose RuntimeError escapes the handler: the request ends
\* without a response.
CallbackScanStepRaises(r) ==
    IF Len(auth_sessions) # r.di_used
    THEN Respond(r, 0, "iteration_error")
    ELSE IF r.di_pos > Len(auth_sessions)
    THEN Respond(r, 400, "no_session")
    ELSE IF auth_sessions[r.di_pos].state = r.state
    THEN CallbackValidate(r, auth_sessions[r.di_pos])
    ELSE [r EXCEPT !.di_pos = r.di_pos + 1]

\* server.py:107-123: one step of the for loop.  The dict iterator raises
\* RuntimeError when the dict's size differs from the size it had when the
\* iterator was made; the handler answers it 500 (server.py:216-220).
CallbackScanStep(r) ==
    IF Len(auth_sessions) # r.di_used
    THEN Respond(r, 500, "iteration_error")
    ELSE IF r.di_pos > Len(auth_sessions)
    THEN Respond(r, 400, "no_session")
    ELSE IF auth_sessions[r.di_pos].state = r.state
    THEN CallbackValidate(r, auth_sessions[r.di_pos])
    ELSE [r EXCEPT !.di_pos = r.di_pos + 1]

\* The states a request may carry: absent, forged, or one that was issued.
RequestStates == {NoValue, Forged} \cup States

\* logger.info(f"State: {state}") and the like: the state values a step
\* writes at info level.
Logged(state_values) == { t \in state_values : t # NoValue }

\* server.py:108-110 and 127-129: what one step of the lookup loop logs.
ScanLogged(r) ==
    IF Len(auth_sessions) # r.di_used \/ r.di_pos > Len(auth_sessions)
    THEN {}
    ELSE Logged({ auth_sessions[r.di_pos].state })

CallbackReceive(code, state, error) ==
    /\ ~LoopBusy
    /\ state \in States => state <= tokens
    /\ received' = received + 1
    /\ info_log' = info_log \cup Logged({state})
    /\ LET r == CallbackEntry(NewRequest(code, state, error)) IN
         /\ requests' = IF r.pc = "done" THEN requests ELSE Append(requests, r)
         /\ response' = IF r.pc = "done" THEN r ELSE response
    /\ UNCHANGED << auth_sessions, auth_results, users, tokens, uuids,
                    answered200, lastStatus, signIns, validations, resultLog,
                    delivered >>

CallbackScan(i) ==
    /\ requests[i].pc = "scan"
    /\ Handled(i, CallbackScanStep(requests[i]))
    /\ info_log' = info_log \cup ScanLogged(requests[i])
    /\ UNCHANGED << auth_sessions, auth_results, users, tokens, uuids,
                    received, lastStatus, signIns, resultLog, delivered >>

\* bool(value) of a value read from a userinfo document.
Truthy(value) == value # "" /\ value # Absent

\* No row: the None that a query's first() returns.
NoUser == [user_id |-> None, email_address |-> Absent,
           external_user_id |-> Absent, last_active_date |-> 0]

\* datetime.now(timezone.utc): later than every time stored so far.
Now(table) ==
    LET times == {0} \cup { table[k].last_active_date : k \in DOMAIN table }
    IN  1 + CHOOSE t \in times : \A u \in times : u <= t

\* query.first(): the first of the rows that the filter selected, or None.
First(table, hits) ==
    IF hits = {} THEN NoUser
    ELSE table[CHOOSE k \in hits : \A j \in hits : k <= j]

\* UserRepository.find_by_external_user_id (the provider is always GOOGLE)
find_by_external_user_id(table, external_user_id) ==
    First(table, { k \in DOMAIN table :
                     table[k].external_user_id = external_user_id })

\* UserRepository.find_by_email
find_by_email(table, email) ==
    First(table, { k \in DOMAIN table : table[k].email_address = email })

\* UserRepository.update_last_active: the table afterwards.
update_last_active(table, user_id) ==
    [ k \in DOMAIN table |->
        IF table[k].user_id = user_id
        THEN [table[k] EXCEPT !.last_active_date = Now(table)]
        ELSE table[k] ]

\* The row that create_from_oauth_profile builds: its external id is
\* oauth_data.get("id", oauth_data.get("sub")).
NewUser(table, oauth_data) ==
    [ user_id |-> Len(table) + 1,
      email_address |-> oauth_data.email,
      external_user_id |-> IF oauth_data.id # Absent THEN oauth_data.id
                           ELSE oauth_data.sub,
      last_active_date |-> Now(table) ]

\* The constraints of the users table (database/models.py): email_address
\* unique and not null, external_user_id not null, and
\* (external_user_id, authentication_provider) unique.
Insertable(table, row) ==
    /\ row.email_address # Absent
    /\ row.external_user_id # Absent
    /\ \A k \in DOMAIN table :
          /\ table[k].email_address # row.email_address
          /\ table[k].external_user_id # row.external_user_id

\* A table without constraints: every row is inserted.
create_unconstrained(table, oauth_data) ==
    [raised |-> FALSE, user |-> NewUser(table, oauth_data),
     stored |-> Append(table, NewUser(table, oauth_data))]

\* UserRepository.create_from_oauth_profile: the commit raises
\* IntegrityError when a constraint of the table is violated.
create_from_oauth_profile(table, oauth_data) ==
    LET row == NewUser(table, oauth_data) IN
    IF Insertable(table, row)
    THEN [raised |-> FALSE, user |-> row, stored |-> Append(table, row)]
    ELSE [raised |-> TRUE, user |-> NoUser, stored |-> table]

\* external_user_id = oauth_data.get("id") or oauth_data.get("sub")
ExternalUserId(oauth_data) ==
    IF Truthy(oauth_data.id) THEN oauth_data.id ELSE oauth_data.sub

\* A service without the checks: every oauth_data passes.
AnyOAuthData(oauth_data) == oauth_data.email = oauth_data.email

\* user_service.py:92-99: the checks that raise ValueError.
ValidOAuthData(oauth_data) ==
    Truthy(oauth_data.email) /\ Truthy(ExternalUserId(oauth_data))

\* A user service that returns without having looked for or created a user.
get_or_create_nothing(oauth_data) ==
    [outcome |-> "created", user |-> NoUser, stored |-> users]

\* UserService.get_or_create_user_from_oauth run without interruption on
\* the stored users: the outcome ("found", "created" or "ValueError"), the
\* user returned and the users stored afterwards.  The user returned for
\* "found" is the row as the lookup read it.
get_or_create_user_from_oauth(oauth_data) ==
    LET existing_user == find_by_external_user_id(users, ExternalUserId(oauth_data))
        existing_email_user == find_by_email(users, oauth_data.email)
        created == create_from_oauth_profile(users, oauth_data)
    IN  IF ~ValidOAuthData(oauth_data)
        THEN [outcome |-> "ValueError", user |-> NoUser, stored |-> users]
        ELSE IF existing_user # NoUser
        THEN [outcome |-> "found", user |-> existing_user,
              stored |-> update_last_active(users, existing_user.user_id)]
        ELSE IF existing_email_user # NoUser \/ created.raised
        THEN [outcome |-> "ValueError", user |-> NoUser, stored |-> users]
        ELSE [outcome |-> "created", user |-> created.user,
              stored |-> created.stored]

\* server.py:160-172: the user info put into the result.
UserInfo(user, is_new_user) ==
    [user_id |-> user.user_id, email |-> user.email_address,
     is_new_user |-> is_new_user, last_active |-> user.last_active_date]

\* self.auth_results[session_id] = {...}  (server.py:195-199)
StoreResult(results, session_id, user_info) ==
    (session_id :> [success |-> TRUE, user_info |-> user_info]) @@ results

\* A clean-up that leaves the session in the table.
CleanUpNothing(sessions, session_id) == sessions

\* A clean-up that empties the session table.
CleanUpAllSessions(sessions, session_id) == << >>

\* server.py:203-204: if session_id in self.auth_sessions: del ...
CleanUpSession(sessions, session_id) == DictDelete(sessions, session_id)

\* The awaited _exchange_code_for_tokens raises: the token endpoint or the
\* userinfo endpoint answered an error status, or no access token came back
\* (server.py:249-262).  The handler answers 500 (server.py:216-220).
CallbackExchangeFails(i) ==
    /\ ~LoopBusy
    /\ requests[i].pc = "exchange"
    /\ Handled(i, Respond(requests[i], 500, "exchange_failed"))
    /\ UNCHANGED << auth_sessions, auth_results, users, tokens, uuids,
                    received, lastStatus, signIns, resultLog, delivered, info_log >>

\* The exchange returned oauth_user_info but the user service raised
\* something other than ValueError (a database error): server.py:182-191.
CallbackDatabaseError(i) ==
    /\ ~LoopBusy
    /\ requests[i].pc = "exchange"
    /\ Handled(i, [Respond(requests[i], 500, "provision_failed")
                       EXCEPT !.provisioned = TRUE])
    /\ UNCHANGED << auth_sessions, auth_results, users, tokens, uuids,
                    received, lastStatus, signIns, resultLog, delivered, info_log >>

\* The exchange returned oauth_user_info: server.py:139-209, which has no
\* await and so runs as one step of the event loop.
CallbackResume(i, oauth_user_info) ==
    LET got == get_or_create_user_from_oauth(oauth_user_info)
        session_id == requests[i].session_id
    IN  /\ ~LoopBusy
        /\ requests[i].pc = "exchange"
        /\ users' = got.stored
        /\ IF got.outcome = "ValueError"
           THEN /\ Handled(i, [Respond(requests[i], 500, "provision_failed")
                                  EXCEPT !.provisioned = TRUE])
                /\ UNCHANGED << auth_sessions, auth_results, resultLog >>
           ELSE /\ auth_results' = StoreResult(auth_results, session_id,
                                      UserInfo(got.user, got.outcome = "created"))
                /\ auth_sessions' = CleanUpSession(auth_sessions, session_id)
                /\ resultLog' = Append(resultLog,
                      << session_id, UserInfo(got.user, got.outcome = "created") >>)
                /\ Handled(i, [Respond(requests[i], 200, "stored")
                                  EXCEPT !.provisioned = TRUE])
        /\ UNCHANGED << tokens, uuids, received, lastStatus, signIns, delivered,
                        info_log >>

----------------------------------------------------------------------------
\* A status endpoint that answers pending for every id without a result.
auth_status_always_pending(session_id) ==
    IF session_id \in DOMAIN auth_results
    THEN [answer |-> [session_id |-> session_id, status |-> "result",
                      success |-> auth_results[session_id].success,
                      user_info |-> auth_results[session_id].user_info],
          results |-> [s \in DOMAIN auth_results \ {session_id} |-> auth_results[s]]]
    ELSE [answer |-> [session_id |-> session_id, status |-> "pending",
                      success |-> FALSE, user_info |-> "none"],
          results |-> auth_results]

\* GET /auth/status/{session_id}  (server.py:222-233): the answer and the
\* result table afterwards.
auth_status(session_id) ==
    IF session_id \in DOMAIN auth_results
    THEN [answer |-> [session_id |-> session_id, status |-> "result",
                      success |-> auth_results[session_id].success,
                      user_info |-> auth_results[session_id].user_info],
          results |-> [s \in DOMAIN auth_results \ {session_id} |-> auth_results[s]]]
    ELSE IF session_id \in SessionKeys
    THEN [answer |-> [session_id |-> session_id, status |-> "pending",
                      success |-> FALSE, user_info |-> "none"],
          results |-> auth_results]
    ELSE [answer |-> [session_id |-> session_id, status |-> "not_found",
                      success |-> FALSE, user_info |-> "none"],
          results |-> auth_results]

\* A status request of any HTTP client.
AuthStatus(session_id) ==
    LET got == auth_status(session_id) IN
    /\ ~LoopBusy
    /\ lastStatus' = got.answer
    /\ auth_results' = got.results
    /\ delivered' = IF got.answer.status = "result"
                    THEN [delivered EXCEPT ![session_id] = @ + 1]
                    ELSE delivered
    /\ UNCHANGED << auth_sessions, users, tokens, uuids, requests, received,
                    response, answered200, signIns, validations, resultLog,
                    info_log >>

----------------------------------------------------------------------------
\* The server with any clients: sign-ins started, callbacks and status
\* requests arriving in any order.
Next ==
    \/ StartSignIn /\ UNCHANGED << uiVars, serviceVars >>
    \/ \E code \in {NoValue, GoodCode}, state \in RequestStates,
          error \in {NoValue, DeniedError} :
            /\ received < MaxCallbacks
            /\ CallbackReceive(code, state, error)
            /\ UNCHANGED << uiVars, serviceVars >>
    \/ \E i \in DOMAIN requests : CallbackScan(i) /\ UNCHANGED << uiVars, serviceVars >>
    \/ \E i \in DOMAIN requests : CallbackExchangeFails(i) /\ UNCHANGED << uiVars, serviceVars >>
    \/ \E i \in DOMAIN requests : CallbackDatabaseError(i) /\ UNCHANGED << uiVars, serviceVars >>
    \/ \E i \in DOMAIN requests, p \in Profiles :
            CallbackResume(i, p) /\ UNCHANGED << uiVars, serviceVars >>
    \/ \E s \in SessionIds : AuthStatus(s) /\ UNCHANGED << uiVars, serviceVars >>

Spec == Init /\ [][Next]_vars

----------------------------------------------------------------------------
\* The claims about the server.

\* This step answered a callback request; the answer is response'.
CallbackAnswered ==
    \/ Len(requests') < Len(requests)
    \/ received' = received + 1 /\ Len(requests') = Len(requests)

\* C1: once a result was stored for a session id, exactly one status
\* request for that id is answered with a result; every later one is
\* answered not_found.
C1_ResultDeliveredOnce ==
    \A s \in SessionIds : delivered[s] <= 1

\* C2: a callback that matched a pending session and then failed in the
\* token exchange, the profile fetch or the provisioning is answered 500
\* and leaves a result with success = false for the session, which no
\* longer reports pending.
C2_FailureRecorded ==
    [][ (CallbackAnswered
          /\ response'.outcome \in {"exchange_failed", "provision_failed"})
        => /\ response'.status = 500
           /\ response'.session_id \in DOMAIN auth_results'
           /\ ~auth_results'[response'.session_id].success
           /\ response'.session_id \notin SessionKeys' ]_vars

\* C3: a result is written into auth_results at most once for each session.
C3_ResultWrittenOnce ==
    \A s \in SessionIds :
        Cardinality({ k \in DOMAIN resultLog : resultLog[k][1] = s }) <= 1

\* C4: a callback that repeats a code and state which were answered 200
\* before it arrived is answered 400, calls no user provisioning and stores
\* no result.
C4_ReplayRejected ==
    [][ (CallbackAnswered /\ response'.replay)
        => /\ response'.status = 400
           /\ ~response'.provisioned
           /\ UNCHANGED << auth_results, resultLog, users >> ]_vars

\* C5: a state token is single-use: at most one callback passes the
\* session lookup and the state validation with it.
C5_StateSingleUse ==
    \A t \in States : validations[t] <= 1

\* C6: a callback without code or state, or with a state that no pending
\* session has, is answered 400 and changes neither table.
C6_InvalidRejected ==
    [][ (CallbackAnswered
          /\ (response'.code = NoValue \/ response'.state = NoValue
                \/ response'.unmatched))
        => /\ response'.status = 400
           /\ UNCHANGED << auth_sessions, auth_results >> ]_vars

\* C7: two sign-ins have distinct session ids and distinct states, and a
\* pending session stays as it is, reporting pending, through every step
\* but the answer 200 to a callback that carries its own state.
C7_SessionsIndependent ==
    /\ [](\A a, b \in DOMAIN signIns :
            a # b => signIns[a][1] # signIns[b][1] /\ signIns[a][2] # signIns[b][2])
    /\ [](\A s \in SessionKeys : auth_status(s).answer.status = "pending")
    /\ [][ \A k \in DOMAIN auth_sessions :
             \/ \E j \in DOMAIN auth_sessions' : auth_sessions'[j] = auth_sessions[k]
             \/ /\ CallbackAnswered
                /\ response'.status = 200
                /\ response'.state = auth_sessions[k].state ]_vars

\* Two sign-ins were started, one was completed and its result is stored,
\* the other is still pending.
C7_Witness ==
    /\ Len(signIns) = 2
    /\ Len(auth_sessions) = 1
    /\ \E s \in DOMAIN auth_results : s \notin SessionKeys

\* C8: a status request for an id with neither a pending session nor a
\* result is answered not_found, one for an id with a pending session and
\* no result is answered pending; both with success = false, and neither
\* changes a table.
C8_StatusOfAbsentResult ==
    [][ lastStatus' # lastStatus =>
          LET s == lastStatus'.session_id IN
          s \notin DOMAIN auth_results =>
             /\ lastStatus'.status =
                   IF s \in SessionKeys THEN "pending" ELSE "not_found"
             /\ ~lastStatus'.success
             /\ UNCHANGED << auth_sessions, auth_results >> ]_vars

\* A status request was answered pending while another id, asked before or
\* after, has neither a session nor a result.
C8_Witness ==
    /\ lastStatus.status = "pending"
    /\ lastStatus.session_id \in SessionKeys
    /\ lastStatus.session_id \notin DOMAIN auth_results

\* C14: a callback that carries an error parameter is answered 400, and
\* when its state is that of a pending session, a result with success =
\* false is stored for that session, which no longer reports pending.
C14_ProviderErrorRecorded ==
    [][ (CallbackAnswered /\ response'.error # NoValue)
        => /\ response'.status = 400
           /\ \A k \in DOMAIN auth_sessions :
                 auth_sessions[k].state = response'.state
                 => /\ auth_sessions[k].session_id \in DOMAIN auth_results'
                    /\ ~auth_results'[auth_sessions[k].session_id].success ]_vars

\* C15: every callback request ends with a response whose status is 200,
\* 400, 403 or 500, and the status is 200 exactly when this request wrote a
\* result with success = true for the session it matched.
C15_CallbackAlwaysAnswers ==
    [][ CallbackAnswered
        => /\ response'.status \in {200, 400, 403, 500}
           /\ response'.status = 200
                 <=> /\ Len(resultLog') = Len(resultLog) + 1
                     /\ resultLog'[Len(resultLog')][1] = response'.session_id
                     /\ response'.session_id \in DOMAIN auth_results'
                     /\ auth_results'[response'.session_id].success ]_vars

\* A callback was answered 500 because provisioning failed, after another
\* had been answered 200 and had stored its result.
C15_Witness ==
    /\ response.status = 500
    /\ response.outcome = "provision_failed"
    /\ Len(resultLog) = 1
    /\ answered200 # {}

\* C16: no session id is in auth_sessions and in auth_results at once, and
\* a status request for a created session of which no result was delivered
\* yet is not answered not_found.
C16_TablesDisjoint ==
    /\ SessionKeys \cap DOMAIN auth_results = {}
    /\ \A k \in DOMAIN signIns :
          delivered[signIns[k][1]] = 0
          => auth_status(signIns[k][1]).answer.status # "not_found"

\* A created session was answered not_found after its result was
\* delivered, and two results have been written in all.
C16_Witness ==
    /\ lastStatus.status = "not_found"
    /\ \E k \in DOMAIN signIns : signIns[k][1] = lastStatus.session_id
    /\ delivered[lastStatus.session_id] = 1
    /\ Len(resultLog) = 2

\* C17: no state token that a sign-in was given is written to the log at
\* info level.
C17_StateNeverLogged ==
    \A k \in DOMAIN signIns : signIns[k][2] \notin info_log

----------------------------------------------------------------------------
\* The sign-in button (ui/auth_components.py) and its polling thread.

\* poll_auth_status: max_attempts.
max_attempts == MaxAttempts

\* GoogleSignInButton._handle_error: _set_loading_state(False), then
\* on_auth_error(error_message).
HandleError(error_message) ==
    /\ button' = [button EXCEPT !.is_loading = FALSE, !.started = 0,
                                 !.in_flight = 0]
    /\ events' = Append(events, << "error", error_message >>)

\* GoogleSignInButton._handle_auth_success: _set_loading_state(False),
\* current_session_id = None, then on_auth_success(user_info).
HandleAuthSuccess(user_info) ==
    /\ button' = [button EXCEPT !.is_loading = FALSE, !.current_session_id = None,
                                 !.started = 0, !.in_flight = 0]
    /\ events' = Append(events, << "success", user_info >>)

\* A start of polling that does not look whether a thread is alive.
StartAuthPollingAlways ==
    /\ thread' = [NoThread EXCEPT !.alive = TRUE, !.pc = "loop",
                                  !.running = thread.running + 1]
    /\ events' = << >>

\* GoogleSignInButton._start_auth_polling: a thread is started unless one
\* is alive.
StartAuthPolling ==
    /\ thread' = IF thread.alive THEN thread
                 ELSE [NoThread EXCEPT !.alive = TRUE, !.pc = "loop",
                                       !.running = thread.running + 1]
    /\ events' = IF thread.alive THEN events ELSE << >>

\* A button that ignores no click.
ClickNeverIgnored == button.is_loading /\ ~button.is_loading

\* auth_components.py:103-104: if self.is_loading: return
ClickIgnored == button.is_loading

\* GoogleSignInButton._handle_click: ignored while loading; otherwise
\* the button loads, a state is generated, the session is created on the
\* server and polling starts.  started and in_flight are history: the
\* sign-ins started since the last terminal callback, and since the last
\* terminal callback or reset_state.
HandleClick ==
    /\ ~ClickIgnored
    /\ tokens' = FreshToken(tokens)
    /\ CreateSession(FreshToken(tokens))
    /\ button' = [is_loading |-> TRUE, current_state |-> FreshToken(tokens),
                  current_session_id |-> FreshUuid(uuids),
                  started |-> button.started + 1,
                  in_flight |-> button.in_flight + 1]
    /\ StartAuthPolling
    /\ UNCHANGED << auth_results, users, requests, received, response,
                    answered200, lastStatus, validations, resultLog,
                    delivered >>

\* A reset that also evicts the button's session from the server.
ResetStateEvicts ==
    /\ button' = [is_loading |-> FALSE, current_state |-> None,
                  current_session_id |-> None, started |-> button.started,
                  in_flight |-> 0]
    /\ auth_sessions' = DictDelete(auth_sessions, button.current_session_id)
    /\ UNCHANGED << auth_results, users, tokens, uuids, requests, received,
                    response, answered200, lastStatus, signIns, validations,
                    resultLog, delivered, info_log, thread, events >>

\* GoogleSignInButton.reset_state
ResetState ==
    /\ button' = [is_loading |-> FALSE, current_state |-> None,
                  current_session_id |-> None, started |-> button.started,
                  in_flight |-> 0]
    /\ UNCHANGED << serverVars, thread, events >>

\* A loop condition that allows one attempt more than the cap.
PollLoopOneMore ==
    /\ thread.alive /\ thread.pc = "loop"
    /\ thread' = [thread EXCEPT !.pc =
                     IF thread.attempt <= max_attempts
                        /\ button.current_session_id # None
                     THEN "sleep" ELSE "after"]
    /\ UNCHANGED << serverVars, button, events >>

\* while attempt < max_attempts and self.current_session_id:
PollLoop ==
    /\ thread.alive /\ thread.pc = "loop"
    /\ thread' = [thread EXCEPT !.pc =
                     IF thread.attempt < max_attempts
                        /\ button.current_session_id # None
                     THEN "sleep" ELSE "after"]
    /\ UNCHANGED << serverVars, button, events >>

\* time.sleep(5); attempt += 1
PollSleep ==
    /\ thread.alive /\ thread.pc = "sleep"
    /\ thread' = [thread EXCEPT !.pc = "check", !.attempt = @ + 1]
    /\ UNCHANGED << serverVars, button, events >>

\* if not self.current_session_id: break
PollCheck ==
    /\ thread.alive /\ thread.pc = "check"
    /\ thread' = [thread EXCEPT !.pc =
                     IF button.current_session_id = None THEN "after" ELSE "request"]
    /\ UNCHANGED << serverVars, button, events >>

\* The url is made from self.current_session_id as it is now, and
\* httpx.get(url) is answered 200 by the server's auth_status.
PollRequest ==
    LET got == auth_status(button.current_session_id) IN
    /\ thread.alive /\ thread.pc = "request"
    /\ ~LoopBusy
    /\ thread' = [thread EXCEPT !.pc = "handle",
                                !.url_id = button.current_session_id,
                                !.result = got.answer]
    /\ lastStatus' = got.answer
    /\ auth_results' = got.results
    /\ delivered' = IF got.answer.status = "result"
                    THEN [delivered EXCEPT ![got.answer.session_id] = @ + 1]
                    ELSE delivered
    /\ UNCHANGED << auth_sessions, users, tokens, uuids, requests, received,
                    response, answered200, signIns, validations, resultLog,
                    info_log, button, events >>

\* httpx.get raises (the server cannot be reached), or the answer's status
\* is not 200.
PollRequestFails(raises) ==
    /\ thread.alive /\ thread.pc = "request"
    /\ thread' = [thread EXCEPT !.pc = IF raises THEN "except" ELSE "warn",
                                !.url_id = button.current_session_id]
    /\ UNCHANGED << serverVars, button, events >>

\* httpx.get(url) is answered 200 with a completed result whose success is
\* false: the body that response.json() returns is whatever listens on
\* port 8000 sent, and a failed result has no status key.
PollRequestGetsFailure ==
    /\ thread.alive /\ thread.pc = "request"
    /\ thread' = [thread EXCEPT
                     !.pc = "handle",
                     !.url_id = button.current_session_id,
                     !.result = [session_id |-> button.current_session_id,
                                 status |-> "result", success |-> FALSE,
                                 user_info |-> "none"]]
    /\ UNCHANGED << serverVars, button, events >>

\* else: logger.warning(unexpected response status), and the loop goes on.
PollWarn ==
    /\ thread.alive /\ thread.pc = "warn"
    /\ thread' = [thread EXCEPT !.pc = "loop"]
    /\ UNCHANGED << serverVars, button, events >>

\* A poller that takes a success answer for a pending one.
PollHandleIgnoresSuccess ==
    /\ thread.alive /\ thread.pc = "handle"
    /\ IF thread.result.status = "not_found"
       THEN /\ HandleError("expired")
            /\ thread' = [thread EXCEPT !.pc = "after"]
       ELSE /\ thread' = [thread EXCEPT !.pc = "loop", !.pendings = @ + 1]
            /\ UNCHANGED << button, events >>
    /\ UNCHANGED serverVars

\* auth_components.py:201-224: the answer is a success, not_found, or
\* anything else, which is taken as pending.
PollHandle ==
    /\ thread.alive /\ thread.pc = "handle"
    /\ IF thread.result.success
       THEN /\ HandleAuthSuccess(thread.result.user_info)
            /\ thread' = [thread EXCEPT !.pc = "after"]
       ELSE IF thread.result.status = "not_found"
       THEN /\ HandleError("expired")
            /\ thread' = [thread EXCEPT !.pc = "after"]
       ELSE /\ thread' = [thread EXCEPT !.pc = "loop", !.pendings = @ + 1]
            /\ UNCHANGED << button, events >>
    /\ UNCHANGED serverVars

\* except Exception: if attempt >= max_attempts: _handle_error(...)
PollExcept ==
    /\ thread.alive /\ thread.pc = "except"
    /\ IF thread.attempt >= max_attempts
       THEN HandleError("polling error")
       ELSE UNCHANGED << button, events >>
    /\ thread' = [thread EXCEPT !.pc = "loop"]
    /\ UNCHANGED serverVars

\* After the loop: if attempt >= max_attempts: _handle_error(timed out);
\* then the thread ends.
PollAfter ==
    /\ thread.alive /\ thread.pc = "after"
    /\ IF thread.attempt >= max_attempts
       THEN HandleError("timed out")
       ELSE UNCHANGED << button, events >>
    /\ thread' = [thread EXCEPT !.alive = FALSE, !.pc = "ended",
                                !.running = @ - 1]
    /\ UNCHANGED serverVars

PollStep ==
    \/ PollLoop /\ UNCHANGED serviceVars
    \/ PollSleep /\ UNCHANGED serviceVars
    \/ PollCheck /\ UNCHANGED serviceVars
    \/ PollRequest /\ UNCHANGED serviceVars
    \/ \E raises \in BOOLEAN : PollRequestFails(raises) /\ UNCHANGED serviceVars
    \/ PollWarn /\ UNCHANGED serviceVars
    \/ PollHandle /\ UNCHANGED serviceVars
    \/ PollExcept /\ UNCHANGED serviceVars
    \/ PollAfter /\ UNCHANGED serviceVars

\* The handlers' steps that the event loop takes by itself.
ServerStep ==
    \/ \E i \in DOMAIN requests : CallbackScan(i) /\ UNCHANGED << uiVars, serviceVars >>
    \/ \E i \in DOMAIN requests : CallbackExchangeFails(i) /\ UNCHANGED << uiVars, serviceVars >>
    \/ \E i \in DOMAIN requests : CallbackDatabaseError(i) /\ UNCHANGED << uiVars, serviceVars >>
    \/ \E i \in DOMAIN requests, p \in Profiles :
            CallbackResume(i, p) /\ UNCHANGED << uiVars, serviceVars >>

\* The application: one sign-in button, its polling thread, the server, and
\* the browser, which follows the provider's redirects: to the callback with
\* a code and the state of a sign-in, or with an error and that state.
NextApp ==
    \/ uuids < MaxClicks /\ HandleClick /\ UNCHANGED serviceVars
    \/ ResetState /\ UNCHANGED serviceVars
    \/ PollStep
    \/ \E state \in States :
            /\ received < MaxRedirects
            /\ CallbackReceive(GoodCode, state, NoValue)
            /\ UNCHANGED << uiVars, serviceVars >>
    \/ \E state \in States :
            /\ received < MaxRedirects
            /\ CallbackReceive(NoValue, state, DeniedError)
            /\ UNCHANGED << uiVars, serviceVars >>
    \/ ServerStep

SpecApp == Init /\ [][NextApp]_vars

\* The polling thread runs as long as it is alive and the event loop
\* works off its handlers; the user and the browser act when they like.
FairApp == SpecApp /\ WF_vars(PollStep) /\ WF_vars(ServerStep)

\* GoogleOAuthService.validate_state called with any two strings.
Chars == {97, 98, NonAscii}
Strings == UNION { [1..n -> Chars] : n \in 0..MaxLen }

InitValidate ==
    /\ InitProgram
    /\ validated \in { [NotValidated EXCEPT !.received_state = a,
                                            !.expected_state = b] :
                         a \in Strings, b \in Strings }

Validate ==
    LET valid == validate_state(validated.received_state,
                                validated.expected_state)
    IN  /\ ~validated.called
        /\ validated' = [validated EXCEPT !.called = TRUE,
                                          !.raised = valid.raised,
                                          !.value = valid.value]
        /\ UNCHANGED << serverVars, uiVars, calls, app >>

NextValidate == Validate

SpecValidate == InitValidate /\ [][NextValidate]_vars

----------------------------------------------------------------------------
\* UserService.get_or_create_user_from_oauth called by several callers at
\* once.  Each repository method is one transaction; the calls of different
\* callers interleave between them.

\* Everything but the users table and the calls.
flowVars == << auth_sessions, auth_results, tokens, uuids, requests, received,
               response, answered200, lastStatus, signIns, validations,
               resultLog, delivered, info_log, uiVars, validated, app >>

InFlight(c) == calls[c].pc \notin {"idle", "done"}

\* The user that a finished call created for this external id, or None.
CreatedBefore(external_user_id) ==
    LET done == { d \in Callers :
                    /\ calls[d].pc = "done"
                    /\ calls[d].outcome = "created"
                    /\ ExternalUserId(calls[d].oauth_data) = external_user_id }
    IN  IF done = {} THEN None ELSE calls[CHOOSE d \in done : TRUE].user_id

\* A stored user with another external id holds the email of oauth_data.
EmailTaken(oauth_data) ==
    \E k \in DOMAIN users :
        /\ users[k].email_address = oauth_data.email
        /\ users[k].external_user_id # ExternalUserId(oauth_data)

\* The call begins: user_service.py:92-99.
UserCall(c, oauth_data) ==
    /\ calls[c].pc = "idle"
    /\ calls' = [ d \in Callers |->
          IF d = c
          THEN [calls[c] EXCEPT
                  !.oauth_data = oauth_data,
                  !.pc = IF ValidOAuthData(oauth_data) THEN "find_id" ELSE "done",
                  !.outcome = IF ValidOAuthData(oauth_data) THEN "none"
                              ELSE "ValueError",
                  !.prior = CreatedBefore(ExternalUserId(oauth_data)),
                  !.email_taken = EmailTaken(oauth_data),
                  !.first =
                     /\ ValidOAuthData(oauth_data)
                     /\ \A e \in Callers : ~InFlight(e)
                     /\ find_by_external_user_id(
                            users, ExternalUserId(oauth_data)) = NoUser
                     /\ find_by_email(users, oauth_data.email) = NoUser]
          ELSE IF InFlight(d) THEN [calls[d] EXCEPT !.first = FALSE]
          ELSE calls[d] ]
    /\ UNCHANGED << users, flowVars >>

\* user_service.py:101-105
UserFindByExternalId(c) ==
    LET existing_user == find_by_external_user_id(
                             users, ExternalUserId(calls[c].oauth_data))
    IN  /\ calls[c].pc = "find_id"
        /\ calls' = [calls EXCEPT
                        ![c].existing_user = existing_user,
                        ![c].pc = IF existing_user # NoUser THEN "update"
                                  ELSE "find_email"]
        /\ UNCHANGED << users, flowVars >>

\* user_service.py:106-108
UserUpdateLastActive(c) ==
    /\ calls[c].pc = "update"
    /\ users' = update_last_active(users, calls[c].existing_user.user_id)
    /\ calls' = [calls EXCEPT ![c].pc = "done", ![c].outcome = "found",
                              ![c].user_id = calls[c].existing_user.user_id]
    /\ UNCHANGED flowVars

\* user_service.py:110-117
UserFindByEmail(c) ==
    LET existing_email_user == find_by_email(users, calls[c].oauth_data.email)
    IN  /\ calls[c].pc = "find_email"
        /\ calls' = IF existing_email_user # NoUser
                    THEN [calls EXCEPT ![c].pc = "done",
                                       ![c].outcome = "ValueError"]
                    ELSE [calls EXCEPT ![c].pc = "create"]
        /\ UNCHANGED << users, flowVars >>

\* user_service.py:119-126
UserCreate(c) ==
    LET created == create_from_oauth_profile(users, calls[c].oauth_data)
    IN  /\ calls[c].pc = "create"
        /\ users' = created.stored
        /\ calls' = IF created.raised
                    THEN [calls EXCEPT ![c].pc = "done",
                                       ![c].outcome = "ValueError"]
                    ELSE [calls EXCEPT ![c].pc = "done",
                                       ![c].outcome = "created",
                                       ![c].user_id = created.user.user_id]
        /\ UNCHANGED flowVars

NextUsers ==
    \/ \E c \in Callers, oauth_data \in ServiceProfiles : UserCall(c, oauth_data)
    \/ \E c \in Callers : UserFindByExternalId(c)
    \/ \E c \in Callers : UserUpdateLastActive(c)
    \/ \E c \in Callers : UserFindByEmail(c)
    \/ \E c \in Callers : UserCreate(c)

SpecUsers == Init /\ [][NextUsers]_vars

\* The application with a status endpoint that also hands out failed
\* results.
NextAnswers ==
    \/ NextApp
    \/ PollRequestGetsFailure /\ UNCHANGED serviceVars

SpecAnswers == Init /\ [][NextAnswers]_vars

\* The button and its polling thread when no callback ever arrives: the
\* user clicks, resets and clicks again.
NextRetry ==
    \/ uuids < MaxRetries /\ HandleClick /\ UNCHANGED serviceVars
    \/ ResetState /\ UNCHANGED serviceVars
    \/ PollStep

SpecRetry == Init /\ [][NextRetry]_vars

----------------------------------------------------------------------------
\* The claims about the polling thread.

\* The state that sign-in session_id was started with.
StateOf(session_id) ==
    IF \E k \in DOMAIN signIns : signIns[k][1] = session_id
    THEN signIns[CHOOSE k \in DOMAIN signIns : signIns[k][1] = session_id][2]
    ELSE None

\* The thread has a status request ahead of it.
AttemptLeft ==
    /\ thread.alive
    /\ \/ thread.pc \in {"loop", "sleep"} /\ thread.attempt < max_attempts
       \/ thread.pc \in {"check", "request"}

\* The callback has stored a success for the button's sign-in while the
\* poller has attempts left.
ResultWaiting(s) ==
    /\ button.current_session_id = s
    /\ button.current_state = StateOf(s)
    /\ s \in DOMAIN auth_results
    /\ auth_results[s].success
    /\ AttemptLeft

\* The poller has called on_auth_success for session s and left the loop.
SuccessDelivered(s) ==
    /\ thread.url_id = s
    /\ thread.pc \in {"after", "ended"}
    /\ \E k \in DOMAIN events : events[k][1] = "success"

\* The user info of every on_auth_success call is one that a callback
\* stored for the session the poller asked for.
SuccessIsStoredResult ==
    \A k \in DOMAIN events :
        events[k][1] = "success" =>
            \E j \in DOMAIN resultLog : resultLog[j] = << thread.url_id, events[k][2] >>

Abandoned(s) == button.current_state # StateOf(s)

\* A status request of the poller got no answer or an answer that is not 200.
PollFailed == thread.alive /\ thread.pc \in {"except", "warn"}

C10_PollingEnds ==
    /\ [](thread.attempt <= max_attempts)
    /\ [](thread.pc = "ended" /\ thread.pendings = max_attempts
            => events = << << "error", "timed out" >> >>)
    /\ (thread.alive ~> ~thread.alive)

\* A run has ended after max_attempts pending answers.
C10_Witness ==
    /\ thread.pc = "ended"
    /\ thread.attempt = max_attempts
    /\ thread.pendings = max_attempts
    /\ events = << << "error", "timed out" >> >>

\* C11: when the poller handles a completed result whose success is false,
\* it calls on_auth_error and leaves the loop instead of taking the answer
\* for pending.
C11_FailedResultReported ==
    [][ (thread.alive /\ thread.pc = "handle" /\ thread' # thread
           /\ thread.result.status = "result" /\ ~thread.result.success)
        => /\ thread'.pc = "after"
           /\ Len(events') = Len(events) + 1
           /\ events'[Len(events')][1] = "error" ]_vars

\* C12: once reset_state has cancelled a sign-in, no on_auth_success and no
\* on_auth_error is called for it: none while the button has no sign-in, and
\* none from an answer the poller got for a sign-in that is no longer the
\* button's.
C12_NoCallbackAfterReset ==
    [][ Len(events') > Len(events)
        => /\ button.current_state # None
           /\ thread.pc = "handle" => button.current_state = StateOf(thread.url_id)
      ]_vars

\* C13: at most one thread runs poll_auth_status, and a click that comes
\* while the polling thread is alive leaves the thread as it is.
C13_SinglePollingThread ==
    /\ [](thread.running <= 1)
    /\ [][ (uuids' # uuids /\ button'.is_loading /\ thread.alive)
            => (thread' = thread /\ events' = events) ]_vars

\* The thread that polled an earlier sign-in is alive, and the only one,
\* after a later click made another sign-in the button's.
C13_Witness ==
    /\ thread.alive
    /\ thread.running = 1
    /\ thread.url_id # None
    /\ button.current_session_id # None
    /\ thread.url_id # button.current_session_id

----------------------------------------------------------------------------
\* The claims about validate_state and the user service.

\* C18: validate_state returns true exactly when its two strings are
\* equal, for every pair of strings, and raises nothing.
C18_ValidateIsEquality ==
    validated.called
    => /\ ~validated.raised
       /\ validated.value <=> validated.received_state = validated.expected_state

\* C19: no two stored users have the same email address, and no two the
\* same external user id (and provider).
C19_UsersUnique ==
    \A i, j \in DOMAIN users :
        i # j => /\ users[i].email_address # users[j].email_address
                 /\ users[i].external_user_id # users[j].external_user_id

\* Two calls for the same complete profile ran side by side: one created
\* the user, the other was refused by the table.
C19_Witness ==
    /\ Len(users) = 1
    /\ \E c, d \in Callers :
          /\ calls[c].outcome = "created"
          /\ calls[d].pc = "done" /\ calls[d].outcome = "ValueError"
          /\ calls[d].oauth_data = calls[c].oauth_data
          /\ calls[c].oauth_data.id = "1234"

\* C20: a call for a profile with email and external id that begins when
\* no user matches, and runs alone, creates one user and returns it as new;
\* a call that begins after an earlier call created a user for its external
\* id returns that user as not new, creates none and advances the user's
\* last-active date.
C20_GetOrCreate ==
    [][ \A c \in Callers :
          (calls[c].pc # "done" /\ calls'[c].pc = "done")
          => /\ calls'[c].first
                => /\ calls'[c].outcome = "created"
                   /\ Len(users') = Len(users) + 1
             /\ calls'[c].prior # None
                => /\ calls'[c].outcome = "found"
                   /\ calls'[c].user_id = calls'[c].prior
                   /\ Len(users') = Len(users)
                   /\ \E k \in DOMAIN users :
                         /\ users[k].user_id = calls'[c].prior
                         /\ users'[k].last_active_date
                               > users[k].last_active_date ]_vars

----------------------------------------------------------------------------
\* TideApp (main.py) with its FletAuthHandler (flet_auth_handlers.py) and
\* RouteProtector (route_protection.py).

\* The routes a route change may name: the landing page, the sign-in page,
\* two of the routes TideApp protects (one it has a page for, one it has
\* none for) and a route nobody registered.
Routes == {"/", "/auth", "/dashboard", "/profile", "/about"}

\* main.py:107-113 (two of the five).
TideProtectedRoutes == {"/dashboard", "/profile"}

\* email.split("@")[0]
LocalPart(email) ==
    CASE email = "alice@example.com" -> "alice"
      [] email = "bob@example.com" -> "bob"
      [] OTHER -> email

\* FletAuthHandler._validate_session_data
validate_session_data(session_data) ==
    /\ Truthy(session_data.user_id)
    /\ Truthy(session_data.email)
    /\ Truthy(session_data.name)
    /\ Truthy(session_data.provider)

\* The sessions client storage may hold when the application starts: none,
\* one stored by an earlier run, or one that lacks a name.
StoredSessions ==
    { {},
      { [user_id |-> "1234", email |-> "alice@example.com", name |-> "alice",
         provider |-> "google"] },
      { [user_id |-> "1234", email |-> "alice@example.com", name |-> Absent,
         provider |-> "google"] } }

\* FletAuthHandler._extract_user_data_from_event: the user data, or None.
extract_user_data_from_event(user_info) ==
    LET user_data ==
          [ user_id |-> IF user_info.id # Absent THEN user_info.id
                        ELSE IF user_info.sub # Absent THEN user_info.sub
                        ELSE "",
            email |-> IF user_info.email # Absent THEN user_info.email ELSE "",
            name |-> IF Truthy(user_info.email) THEN LocalPart(user_info.email)
                     ELSE "User",
            provider |-> "google" ]
    IN  IF user_data.user_id = "" \/ user_data.email = "" \/ user_data.name = ""
        THEN NoSession
        ELSE user_data

\* FletAuthHandler.is_authenticated
is_authenticated(a) ==
    a.current_user # NoSession /\ validate_session_data(a.current_user)

\* FletAuthHandler.get_current_user: the safe user data, or None.
get_current_user(a) ==
    IF ~is_authenticated(a) THEN NoSession
    ELSE [user_id |-> a.current_user.user_id, email |-> a.current_user.email,
          name |-> a.current_user.name, provider |-> a.current_user.provider]

\* FletAuthHandler._restore_session
restore_session(a) ==
    IF a.client_storage = {} THEN a
    ELSE LET session_data == CHOOSE d \in a.client_storage : TRUE
         IN  IF validate_session_data(session_data)
             THEN [a EXCEPT !.current_user = session_data]
             ELSE [a EXCEPT !.client_storage = {}]

\* RouteProtector.add_protected_route
add_protected_route(a, route) ==
    [a EXCEPT !.protected_routes = @ \cup {route}]

\* RouteProtector.add_public_route
add_public_route(a, route) ==
    [a EXCEPT !.public_routes = @ \cup {route}]

\* RouteProtector.check_route_access
check_route_access(a, route) ==
    IF route \in a.public_routes THEN TRUE
    ELSE IF route \in a.protected_routes THEN is_authenticated(a)
    ELSE TRUE

RECURSIVE go(_, _)

\* TideApp._handle_route_change.  The dashboard page asks
\* require_authentication, which goes to /auth when nobody is signed in.
handle_route_change(a, route) ==
    IF route = "/auth" THEN [a EXCEPT !.view = "auth"]
    ELSE IF route = "/dashboard"
    THEN IF is_authenticated(a) THEN [a EXCEPT !.view = "dashboard"]
         ELSE go([a EXCEPT !.view = "none"], "/auth")
    ELSE IF route = "/" \/ route = "" THEN [a EXCEPT !.view = "landing"]
    ELSE [a EXCEPT !.view = "not_found"]

\* RouteProtector.protect_route_navigation: its value and the page after.
protect_route_navigation(a, target_route) ==
    IF check_route_access(a, target_route)
    THEN [value |-> TRUE, app |-> a]
    ELSE [value |-> FALSE, app |-> go(a, "/auth")]

\* protected_route_change of setup_route_protection: the original handler
\* is the one the page had when the protection was set up.
protected_route_change(a, route) ==
    LET navigation == protect_route_navigation(a, route)
    IN  IF ~navigation.value THEN navigation.app
        ELSE IF a.original_on_route_change = "_handle_route_change"
        THEN handle_route_change([a EXCEPT !.last_change = "protected"], route)
        ELSE a

\* page.go: set the route and fire the page's on_route_change handler.
go(a, route) ==
    LET page == [a EXCEPT !.route = route]
    IN  IF page.on_route_change = "protected_route_change"
        THEN protected_route_change(page, route)
        ELSE IF page.on_route_change = "_handle_route_change"
        THEN handle_route_change([page EXCEPT !.last_change = "unprotected"],
                                 route)
        ELSE page

\* setup_route_protection
setup_route_protection(a, routes_to_protect) ==
    [a EXCEPT !.public_routes = {"/", "/auth"},
              !.protected_routes = routes_to_protect,
              !.original_on_route_change = a.on_route_change,
              !.on_route_change = "protected_route_change"]

\* TideApp._setup_navigation
setup_navigation(a) == [a EXCEPT !.on_route_change = "_handle_route_change"]

\* TideApp._start_application
start_application(a) ==
    IF is_authenticated(a) THEN go(a, "/dashboard") ELSE go(a, "/auth")

\* A logout that does not reset current_user.
logout_keeps_user(a, kept, callback_raises) ==
    LET cleared == [a EXCEPT !.client_storage = kept]
    IN  IF callback_raises THEN cleared ELSE go(cleared, "/")

\* FletAuthHandler.logout.  _clear_secure_session swallows what it raises
\* and leaves the keys it had not yet removed (kept); the logout callback
\* is TideApp._handle_logout, which goes to the landing page.
logout(a, kept, callback_raises) ==
    LET cleared == [a EXCEPT !.client_storage = kept,
                             !.current_user = NoSession]
    IN  IF callback_raises THEN cleared ELSE go(cleared, "/")

\* FletAuthHandler._handle_login_event.  The success callback is
\* TideApp._handle_auth_success, which goes to the dashboard.
handle_login_event(a, error, user_info, store_raises) ==
    LET user_data == extract_user_data_from_event(user_info)
    IN  IF error \/ user_data = NoSession \/ store_raises THEN a
        ELSE go([a EXCEPT !.client_storage = @ \cup {user_data},
                          !.current_user = user_data], "/dashboard")

\* TideApp.__init__ on a page whose client storage holds the sessions stored.
TideAppInit(stored) ==
    /\ app.phase = "new"
    /\ LET authentication == restore_session([app EXCEPT !.client_storage = stored])
           protection == setup_route_protection(authentication, TideProtectedRoutes)
           navigation == setup_navigation(protection)
       IN  app' = [start_application(navigation) EXCEPT !.phase = "started",
                                                       !.last_op = "init"]
    /\ UNCHANGED << serverVars, uiVars, calls, validated >>

\* The page fires a login event.
LoginEvent(error, user_info, store_raises) ==
    /\ app.phase = "started"
    /\ app' = [handle_login_event(app, error, user_info, store_raises)
                 EXCEPT !.last_op = "login"]
    /\ UNCHANGED << serverVars, uiVars, calls, validated >>

\* logout() is called.
Logout(kept, callback_raises) ==
    /\ app.phase = "started"
    /\ app' = [logout(app, kept, callback_raises) EXCEPT
                 !.last_op = "logout",
                 !.logout_log = [was_authenticated |-> is_authenticated(app),
                                 kept_keys |-> kept # {},
                                 callback_raised |-> callback_raises]]
    /\ UNCHANGED << serverVars, uiVars, calls, validated >>

\* The user navigates: the page fires a route change event.
RouteChange(route) ==
    /\ app.phase = "started"
    /\ app' = [go(app, route) EXCEPT !.last_op = "route"]
    /\ UNCHANGED << serverVars, uiVars, calls, validated >>

AddProtectedRoute(route) ==
    /\ app.phase = "started"
    /\ app' = [add_protected_route(app, route) EXCEPT !.last_op = "add"]
    /\ UNCHANGED << serverVars, uiVars, calls, validated >>

AddPublicRoute(route) ==
    /\ app.phase = "started"
    /\ app' = [add_public_route(app, route) EXCEPT !.last_op = "add"]
    /\ UNCHANGED << serverVars, uiVars, calls, validated >>

NextRoutes ==
    \/ \E stored \in StoredSessions : TideAppInit(stored)
    \/ \E error, store_raises \in BOOLEAN, user_info \in Profiles :
          LoginEvent(error, user_info, store_raises)
    \/ \E kept \in SUBSET app.client_storage, callback_raises \in BOOLEAN :
          Logout(kept, callback_raises)
    \/ \E route \in Routes : RouteChange(route)
    \/ \E route \in Routes : AddProtectedRoute(route)
    \/ \E route \in Routes : AddPublicRoute(route)

SpecRoutes == Init /\ [][NextRoutes]_vars

----------------------------------------------------------------------------
\* The claims about route protection and logout.

\* C22: while nobody is signed in, for every route in protected_routes
\* check_route_access is false and protect_route_navigation is false and
\* leaves the page at /auth.
C22_ProtectedRoutesDenied ==
    \A route \in app.protected_routes :
        ~is_authenticated(app)
        => /\ ~check_route_access(app, route)
           /\ ~protect_route_navigation(app, route).value
           /\ protect_route_navigation(app, route).app.route = "/auth"

\* C23: once TideApp is initialised, every route change event reaches the
\* application's route handler through protect_route_navigation.
C23_RouteChangesProtected ==
    (app.phase = "started" /\ app.last_change # "none")
    => app.last_change = "protected"

\* C24: after logout nobody is signed in: is_authenticated is false and
\* get_current_user is None.
C24_LogoutSignsOut ==
    app.last_op = "logout"
    => ~is_authenticated(app) /\ get_current_user(app) = NoSession

\* A signed-in user logged out while session keys could not be removed and
\* the logout callback raised.
C24_Witness ==
    /\ app.last_op = "logout"
    /\ app.logout_log.was_authenticated
    /\ app.logout_log.kept_keys
    /\ app.logout_log.callback_raised

----------------------------------------------------------------------------
\* The GoogleSignInButton of flet_auth_ui.py, whose click callback is
\* AuthenticationPage._handle_google_signin.

\* flet_auth_ui.py:118-120: if self.is_loading: return
flet_click_ignored(a) == a.signin_button.is_loading

\* GoogleSignInButton._handle_click: set_loading_state(True), then the
\* click callback, which calls page.login and, when that raises, shows the
\* error and clears the loading state.
FletHandleClick(login_raises) ==
    /\ ~flet_click_ignored(app)
    /\ app' = IF login_raises THEN app
              ELSE [app EXCEPT !.signin_button =
                       [is_loading |-> TRUE, logins |-> @.logins + 1,
                        in_flight |-> @.in_flight + 1]]
    /\ UNCHANGED << serverVars, uiVars, calls, validated >>

\* GoogleSignInButton.handle_auth_success and handle_auth_error:
\* set_loading_state(False), then the callback.
FletHandleAuthOutcome ==
    /\ app' = [app EXCEPT !.signin_button.is_loading = FALSE,
                          !.signin_button.in_flight = 0]
    /\ UNCHANGED << serverVars, uiVars, calls, validated >>

\* Both sign-in buttons.
NextButtons ==
    \/ NextRetry
    \/ \E login_raises \in BOOLEAN :
          app.signin_button.logins < MaxRetries /\ FletHandleClick(login_raises)
    \/ FletHandleAuthOutcome

SpecButtons == Init /\ [][NextButtons]_vars

\* What a click that is not ignored does: a state token, a session, a
\* page.login call.
SignInStarts ==
    \/ tokens' # tokens
    \/ uuids' # uuids
    \/ auth_sessions' # auth_sessions
    \/ Len(signIns') > Len(signIns)

\* C25: a click on a loading button starts nothing (no state token, no
\* session, no page.login call), and a button starts at most one sign-in
\* between two terminal callbacks.
C25_OneSignInPerButton ==
    [][ /\ SignInStarts => ~button.is_loading
        /\ app'.signin_button.logins # app.signin_button.logins
              => ~app.signin_button.is_loading
        /\ button'.started <= 1
        /\ app'.signin_button.in_flight <= 1 ]_vars

\* C25 as amended: at most one sign-in between two events that end one,
\* a terminal callback or reset_state.
C25_OneSignInPerButtonUntilEnded ==
    [][ /\ SignInStarts => ~button.is_loading
        /\ app'.signin_button.logins # app.signin_button.logins
              => ~app.signin_button.is_loading
        /\ button'.in_flight <= 1
        /\ app'.signin_button.in_flight <= 1 ]_vars

\* Each button is loading with its second sign-in, the first one ended.
C25_Witness ==
    /\ button.is_loading /\ uuids = 2 /\ button.in_flight = 1
    /\ app.signin_button.is_loading /\ app.signin_button.logins = 2

----------------------------------------------------------------------------
\* The claims about the order of the callback's steps, the life of the
\* table entries and the polling loop's outcomes.

\* C26: a handler goes on to the token exchange only with the pending
\* session whose state equals the request's; the user service is called
\* only by a handler that waited for the exchange, and not when the
\* exchange failed; and a result is stored only by a handler that called
\* the user service, with the stored user it returned.
C26_StepsInOrder ==
    [][ /\ \A i \in DOMAIN requests :
              (requests[i].pc = "scan" /\ i \in DOMAIN requests'
                  /\ requests'[i].pc = "exchange")
              => \E k \in DOMAIN auth_sessions :
                    /\ auth_sessions[k].state = requests[i].state
                    /\ auth_sessions[k].session_id = requests'[i].session_id
        /\ (Len(requests') < Len(requests) /\ response'.provisioned)
              => /\ response'.outcome # "exchange_failed"
                 /\ \E i \in DOMAIN requests :
                       /\ requests[i].pc = "exchange"
                       /\ requests[i].session_id = response'.session_id
        /\ Len(resultLog') > Len(resultLog)
              => /\ Len(requests') < Len(requests)
                 /\ response'.provisioned /\ response'.outcome = "stored"
                 /\ resultLog'[Len(resultLog')][1] = response'.session_id
                 /\ \E k \in DOMAIN users' :
                       users'[k].user_id = resultLog'[Len(resultLog')][2].user_id
      ]_vars

\* A result is stored, and the latest callback, whose state matched a
\* session, was answered with an error because its token exchange failed.
C26_Witness ==
    /\ Len(resultLog) > 0
    /\ response.outcome = "exchange_failed" /\ response.session_id # 0

\* C27: a session leaves auth_sessions only in the step of a callback that
\* stores its result, and a result leaves auth_results only in the answer
\* to a status query for its id; a poller's terminal callback and
\* reset_state change neither table.
C27_EntriesPersist ==
    [][ /\ \A k \in DOMAIN auth_sessions :
              (\A j \in DOMAIN auth_sessions' :
                   auth_sessions'[j] # auth_sessions[k])
              => /\ Len(requests') < Len(requests)
                 /\ response'.outcome = "stored"
                 /\ response'.session_id = auth_sessions[k].session_id
                 /\ auth_sessions[k].session_id \in DOMAIN auth_results'
        /\ \A s \in DOMAIN auth_results \ DOMAIN auth_results' :
              /\ lastStatus'.session_id = s
              /\ lastStatus'.status = "result"
              /\ delivered'[s] = delivered[s] + 1
        /\ (Len(events') > Len(events) \/ button'.in_flight < button.in_flight)
              => auth_sessions' = auth_sessions /\ auth_results' = auth_results
      ]_vars

\* An abandoned sign-in: the poller timed out and ended, the button was
\* reset, and the session is still in the table.
C27_Witness ==
    /\ Len(auth_sessions) = 1
    /\ ~thread.alive /\ thread.attempt = max_attempts
    /\ Len(events) > 0 /\ events[Len(events)] = << "error", "timed out" >>
    /\ button.current_session_id = None /\ button.current_state = None

\* C28: a run of the polling loop that has ended delivered at most one
\* terminal callback, and exactly one unless the button was reset.
C28_OneTerminalOutcome ==
    (uuids > 0 /\ ~thread.alive)
    => /\ Len(events) <= 1
       /\ button.current_state # None => Len(events) = 1

\* C29: the button is never loading without a live polling thread, the
\* thread that will deliver the terminal callback which clears the loading
\* state.
C29_LoadingHasPoller ==
    button.is_loading => thread.alive

\* C30: no callback is answered 403 (the session the lookup selects has
\* the received state, so validate_state is true for it), and every
\* callback whose state no pending session has is answered 400.
C30_Never403 ==
    [][ CallbackAnswered
        => /\ response'.status # 403
           /\ response'.outcome # "csrf"
           /\ (response'.unmatched /\ response'.error = NoValue)
                => response'.status = 400 ]_vars

====
